---- MODULE Spec2Model ----
(***************************************************************************)
(* Model of mabi-pack: the PACK container codec (pack.rs, extract.rs,      *)
(* list.rs, main.rs).  Files and buffers are sequences of bytes (0..255);  *)
(* a position in a file is a 0-based offset, so byte k of a file f is      *)
(* f[k+1].                                                                 *)
(*                                                                         *)
(* The source carries two variants of the timestamp writers, selected by  *)
(* cfg(target_os = "windows") and cfg(target_os = "unix"); the variable    *)
(* platform selects the variant and the value of std::path::MAIN_SEPARATOR.*)
(***************************************************************************)
EXTENDS Integers, Sequences, FiniteSets, TLC

VARIABLES
    platform,      \* "windows" or "unix": which cfg variant is built
    \* ---- codec specification (pure functions) ----
    c_pc,          \* position of the codec exercise
    c_name,        \* input of write_str_block
    c_block,       \* bytes produced by write_str_block
    c_dec,         \* result of read_str on c_block
    c_head,        \* HeadInfo given to write_header
    c_time,        \* the byte GetSystemTime/GetFileTime fill the FILETIMEs with
    c_hbytes,      \* bytes produced by write_header
    c_hread,       \* result of read_header on c_hbytes
    \* ---- container specification ----
    pc,            \* position of the command sequence
    folder,        \* input folder: files in WalkDir traversal order
    version_arg,   \* the -k argument of pack, a string
    ftime,         \* the byte the Windows time calls fill FILETIMEs with
    out,           \* bytes of the container file
    out_exists,    \* the container file has been created
    file_names,    \* run_pack: relative names, traversal order
    index_size,    \* run_pack: index_size
    content_off,   \* run_pack: content_off
    index_off,     \* run_pack: index_off
    out_pos,       \* run_pack: position of the output stream
    pk_i,          \* run_pack: number of loop iterations completed
    fis,           \* run_pack: per processed entry, its FileInfo and the byte ranges written
    head_info,     \* run_pack: the HeadInfo passed to write_header
    hdr_writes,    \* run_pack: number of write_header calls
    pack_result,   \* result of run_pack
    tampered,      \* what was done to the container after pack
    filters,       \* run_extract: the -f arguments
    ex_head,       \* run_extract: head_info
    entries,       \* run_extract: file_entries
    index_read,    \* read_index has been entered
    ex_i,          \* run_extract: number of loop iterations completed
    ex_done,       \* run_extract: index positions whose extract_file returned Ok
    outdir,        \* output folder: set of [path, data] written by write_file
    ext_result,    \* result of run_extract
    has_version,   \* run_list: --with-version
    list_out,      \* run_list: lines written to the output stream
    list_result    \* result of run_list

codec_vars == <<c_pc, c_name, c_block, c_dec, c_head, c_time, c_hbytes, c_hread>>
pack_vars == <<file_names, index_size, content_off, index_off, out_pos, pk_i, fis, head_info,
               hdr_writes, pack_result>>
extract_vars == <<filters, ex_head, entries, index_read, ex_i, ex_done, outdir, ext_result>>
list_vars == <<has_version, list_out, list_result>>
input_vars == <<folder, version_arg, ftime>>
vars == <<platform, codec_vars, pc, input_vars, out, out_exists, pack_vars, tampered,
          extract_vars, list_vars>>

(***************************************************************************)
(* Bounds of the model.                                                    *)
(***************************************************************************)
MaxNameLen == 200      \* longest name given to write_str_block
MaxFiles == 2          \* most files in the input folder
MaxDataLen == 2        \* longest file content

(***************************************************************************)
(* Bytes, integers and sequences.                                          *)
(***************************************************************************)
HEADER_SIZE == 544     \* 0x220

Platforms == {"windows", "unix"}

\* std::path::MAIN_SEPARATOR as a byte: '\' on Windows, '/' elsewhere
MAIN_SEPARATOR(plat) == IF plat = "windows" THEN 92 ELSE 47

Zeros(n) == [k \in 1..n |-> 0]

Fill(n, b) == [k \in 1..n |-> b]

\* write_u32::<LittleEndian>
LE32(v) == <<v % 256, (v \div 256) % 256, (v \div 65536) % 256, (v \div 16777216) % 256>>

\* the u32 held by four little-endian bytes
U32Of(b) == b[1] + 256 * b[2] + 65536 * b[3] + 16777216 * b[4]

\* bytes [pos, pos+n) of stm
Slice(stm, pos, n) == [k \in 1..n |-> stm[pos + k]]

RECURSIVE Xor8(_, _, _)
\* a XOR b on the low n bits
Xor8(a, b, n) ==
    IF n = 0 THEN 0
    ELSE (((a % 2) + (b % 2)) % 2) + (2 * Xor8(a \div 2, b \div 2, n - 1))

RECURSIVE SumTo(_, _)
\* f[1] + ... + f[n]
SumTo(f, n) == IF n = 0 THEN 0 ELSE f[n] + SumTo(f, n - 1)

(***************************************************************************)
(* Results.  Ok(v) and Err(kind, name, inner) model Result<T, MabiError>:  *)
(* kind is the MabiError variant, name the entry name a variant carries,   *)
(* inner the variant whose message a wrapping variant carries.             *)
(***************************************************************************)
Ok(v) == [ok |-> TRUE, val |-> v]
Err(kind, name, inner) == [ok |-> FALSE, kind |-> kind, name |-> name, inner |-> inner]
IoFail == Err("IoFail", <<>>, "")
WrongFormat == Err("WrongFormat", <<>>, "")

(***************************************************************************)
(* String block codec.                                                     *)
(***************************************************************************)
calc_str_size_bad(l) ==
    IF l <= 14 THEN <<16, 0>>
    ELSE IF l <= 30 THEN <<32, 1>>
    ELSE IF l <= 46 THEN <<48, 2>>
    ELSE IF l <= 62 THEN <<64, 3>>
    ELSE IF l <= 94 THEN <<96, 4>>
    ELSE <<((l + 20) \div 16) * 16, 5>>

calc_str_size(l) ==
    IF l <= 14 THEN <<16, 0>>
    ELSE IF l <= 30 THEN <<32, 1>>
    ELSE IF l <= 46 THEN <<48, 2>>
    ELSE IF l <= 62 THEN <<64, 3>>
    ELSE IF l <= 94 THEN <<96, 4>>
    ELSE <<((l + 21) \div 16) * 16, 5>>

\* s.replace(MAIN_SEPARATOR, "\\")
ReplaceSep(plat, s) == [k \in 1..Len(s) |-> IF s[k] = MAIN_SEPARATOR(plat) THEN 92 ELSE s[k]]

\* bytes written to the stream, and the returned size
write_str_block(plat, s) ==
    LET sz == calc_str_size(Len(s))
        all_len == sz[1]
        lead_byte == sz[2]
        head == IF lead_byte = 5 THEN <<lead_byte>> \o LE32(all_len - 5) ELSE <<lead_byte>>
        wrote_bytes == Len(head) + Len(s)
    IN [bytes |-> head \o ReplaceSep(plat, s) \o Zeros(all_len - wrote_bytes),
        ret |-> all_len]

\* String::from_utf8 accepts s: every byte outside 128..191 starts a well-formed
\* encoding of 1 to 4 bytes, and every byte in 128..191 lies inside one
Utf8Ok(s) ==
    LET IsCont(j) == j <= Len(s) /\ s[j] >= 128 /\ s[j] <= 191
        In(j, lo, hi) == j <= Len(s) /\ s[j] >= lo /\ s[j] <= hi
        Ends(j) == ~IsCont(j)
        CharAt(k) ==
            LET b == s[k]
            IN IF b < 128 THEN Ends(k + 1)
               ELSE IF b >= 194 /\ b <= 223 THEN IsCont(k + 1) /\ Ends(k + 2)
               ELSE IF b = 224 THEN In(k + 1, 160, 191) /\ IsCont(k + 2) /\ Ends(k + 3)
               ELSE IF b = 237 THEN In(k + 1, 128, 159) /\ IsCont(k + 2) /\ Ends(k + 3)
               ELSE IF b >= 225 /\ b <= 239 THEN IsCont(k + 1) /\ IsCont(k + 2) /\ Ends(k + 3)
               ELSE IF b = 240
                    THEN In(k + 1, 144, 191) /\ IsCont(k + 2) /\ IsCont(k + 3) /\ Ends(k + 4)
               ELSE IF b >= 241 /\ b <= 243
                    THEN IsCont(k + 1) /\ IsCont(k + 2) /\ IsCont(k + 3) /\ Ends(k + 4)
               ELSE IF b = 244
                    THEN In(k + 1, 128, 143) /\ IsCont(k + 2) /\ IsCont(k + 3) /\ Ends(k + 4)
               ELSE FALSE
    IN /\ ~IsCont(1)
       /\ \A k \in 1..Len(s) : IsCont(k) \/ CharAt(k)

read_c_str(stm) ==
    LET zs == {k \in 1..Len(stm) : stm[k] = 0}
    IN IF zs = {} THEN WrongFormat
       ELSE LET len == (CHOOSE k \in zs : \A j \in zs : k <= j) - 1
                str == SubSeq(stm, 1, len)
            IN IF Utf8Ok(str) THEN Ok(str) ELSE Err("Encoding", <<>>, "")

\* read_str on the stream stm with its cursor at pos; a success carries pos, the cursor
\* after the call
read_str(stm, pos) ==
    IF pos + 1 > Len(stm) THEN IoFail
    ELSE LET n == stm[pos + 1]
             explicit == n = 5
             p1 == IF explicit THEN pos + 5 ELSE pos + 1
         IN IF n > 5 THEN WrongFormat
            ELSE IF explicit /\ pos + 5 > Len(stm) THEN IoFail
            ELSE LET str_size == IF n <= 3 THEN (n + 1) * 16 - 1
                                 ELSE IF n = 4 THEN 6 * 16 - 1
                                 ELSE U32Of(Slice(stm, pos + 1, 4))
                 IN IF p1 + str_size > Len(stm) THEN IoFail
                    ELSE LET r == read_c_str(Slice(stm, p1, str_size))
                         IN IF r.ok THEN [ok |-> TRUE, val |-> r.val, pos |-> p1 + str_size]
                            ELSE r

(***************************************************************************)
(* Header codec.                                                           *)
(***************************************************************************)
MAGIC == 1262698832    \* 0x4b434150
PACK_VER == 258        \* 0x102

\* bytes the Windows time calls may leave in a FILETIME
TimeBytes == {0, 213}

\* the cfg(windows) variant writes one FILETIME twice, the cfg(unix) variant nothing
write_header_time(plat, t) == IF plat = "windows" THEN Fill(16, t) ELSE <<>>

\* bytes written to the stream by write_header
write_header(plat, t, h) ==
    LE32(MAGIC) \o LE32(PACK_VER) \o LE32(h.file_ver) \o LE32(h.file_cnt)
    \o write_header_time(plat, t)
    \o <<100, 97, 116, 97, 92>> \o Zeros(480 - 5)
    \o LE32(h.file_cnt) \o LE32(h.index_size) \o LE32(0) \o LE32(h.content_size)
    \o Zeros(16)

read_header_one_count(stm) ==
    IF Len(stm) < 8 THEN IoFail
    ELSE IF Slice(stm, 0, 4) # LE32(MAGIC) \/ Slice(stm, 4, 4) # LE32(PACK_VER) THEN WrongFormat
    ELSE IF Len(stm) < 16 + 496 + 16 THEN IoFail
    ELSE Ok([file_ver |-> U32Of(Slice(stm, 8, 4)),
             file_cnt |-> U32Of(Slice(stm, 12, 4)),
             index_size |-> U32Of(Slice(stm, 16 + 496 + 4, 4)),
             content_size |-> U32Of(Slice(stm, 16 + 496 + 12, 4))])

\* read_header on a file whose bytes are stm, cursor at 0
read_header(stm) ==
    IF Len(stm) < 8 THEN IoFail
    ELSE IF Slice(stm, 0, 4) # LE32(MAGIC) \/ Slice(stm, 4, 4) # LE32(PACK_VER) THEN WrongFormat
    ELSE IF Len(stm) < 16 + 496 + 4 THEN IoFail
    ELSE IF Slice(stm, 16 + 496, 4) # Slice(stm, 12, 4) THEN WrongFormat
    ELSE IF Len(stm) < 16 + 496 + 16 THEN IoFail
    ELSE Ok([file_ver |-> U32Of(Slice(stm, 8, 4)),
             file_cnt |-> U32Of(Slice(stm, 12, 4)),
             index_size |-> U32Of(Slice(stm, 16 + 496 + 4, 4)),
             content_size |-> U32Of(Slice(stm, 16 + 496 + 12, 4))])

(***************************************************************************)
(* Inputs of the codec specification.                                      *)
(***************************************************************************)
\* a name of n bytes: 'a' everywhere, with the byte sep at the second position
NameOfLen(n, sep) == [k \in 1..n |-> IF k = 2 THEN sep ELSE 97]

\* bytes a path handed over by WalkDir can hold at the second position: a letter, the
\* platform's separator, and on non-Windows targets a backslash
SepBytes(plat) == IF plat = "windows" THEN {97, 92} ELSE {97, 47, 92}

CodecNames(plat) == {NameOfLen(n, sep) : n \in 0..MaxNameLen, sep \in SepBytes(plat)}

CodecHeads == [file_ver : {0, 7}, file_cnt : {0, 1, 300}, index_size : {0, 80, 66000},
               content_size : {0, 13, 70000}]

NoHead == [file_ver |-> 0, file_cnt |-> 0, index_size |-> 0, content_size |-> 0]
NoResult == [ok |-> FALSE, kind |-> "none", name |-> <<>>, inner |-> ""]

(***************************************************************************)
(* Content transform pipeline.                                             *)
(*                                                                         *)
(* The zlib and MT19937 crates are outside the repository.  zlib_encode    *)
(* produces the zlib framing of the data as one stored deflate block       *)
(* (RFC 1950/1951): any stream the encoder produces is decoded back to the *)
(* data by zlib_decode, and zlib_decode rejects what the decoder rejects.  *)
(* MTByte stands for the low byte of the k-th word of the generator        *)
(* seeded with seed: a byte stream that is a function of the seed.         *)
(***************************************************************************)
\* (key << 7) ^ 0xA9C36DE1 as four little-endian bytes
SeedOf(key) ==
    LET k == <<(key % 2) * 128, (key \div 2) % 256, (key \div 512) % 256,
               (key \div 131072) % 256>>
        c == <<225, 109, 195, 169>>
    IN [j \in 1..4 |-> Xor8(k[j], c[j], 8)]

\* rng.next_u32() as u8, for the k-th call (k from 0)
MTByte(seed, k) ==
    (seed[1] + 31 * seed[2] + 17 * seed[3] + 7 * seed[4] + 101 * (k + 1) * (seed[1] + 1)) % 256

\* buff[i] ^= rng.next_u32() as u8, for every i
Obfuscate(buff, key) ==
    LET seed == SeedOf(key)
    IN [k \in 1..Len(buff) |-> Xor8(buff[k], MTByte(seed, k - 1), 8)]

RECURSIVE Adler(_, _, _, _)
\* the Adler-32 sums <<a, b>> of data from position k on
Adler(data, k, a, b) ==
    IF k > Len(data) THEN <<a, b>>
    ELSE LET a2 == (a + data[k]) % 65521
         IN Adler(data, k + 1, a2, (b + a2) % 65521)

AdlerBytes(data) ==
    LET ab == Adler(data, 1, 1, 0)
    IN <<ab[2] \div 256, ab[2] % 256, ab[1] \div 256, ab[1] % 256>>

\* zlib::Encoder: write_all(data), finish()
zlib_encode(data) ==
    LET n == Len(data)
    IN <<120, 156>>
       \o <<1, n % 256, n \div 256, 255 - (n % 256), 255 - (n \div 256)>>
       \o data
       \o AdlerBytes(data)

\* zlib::Decoder::new: the two header bytes are read and checked
ZlibHeaderOk(buff) ==
    /\ Len(buff) >= 2
    /\ buff[1] % 16 = 8
    /\ buff[1] \div 16 <= 7
    /\ (buff[2] \div 32) % 2 = 0
    /\ (buff[1] * 256 + buff[2]) % 31 = 0

RECURSIVE Inflate(_, _, _)
\* the deflate blocks of buff from offset pos on, acc the data decoded so far:
\* stored blocks are decoded; the reserved block type and a short stream are errors
Inflate(buff, pos, acc) ==
    IF pos + 1 > Len(buff) THEN IoFail
    ELSE LET hd == buff[pos + 1]
             bfinal == hd % 2
             btype == (hd \div 2) % 4
         IN IF btype # 0 THEN IoFail
            ELSE IF pos + 5 > Len(buff) THEN IoFail
            ELSE LET n == buff[pos + 2] + 256 * buff[pos + 3]
                     nn == buff[pos + 4] + 256 * buff[pos + 5]
                 IN IF n + nn # 65535 THEN IoFail
                    ELSE IF pos + 5 + n > Len(buff) THEN IoFail
                    ELSE LET acc2 == acc \o Slice(buff, pos + 5, n)
                         IN IF bfinal = 1 THEN [ok |-> TRUE, val |-> acc2, pos |-> pos + 5 + n]
                            ELSE Inflate(buff, pos + 5 + n, acc2)

\* decoder.read_to_end(&mut decoded_buff), after a successful Decoder::new
zlib_decode(buff) ==
    LET r == Inflate(buff, 2, <<>>)
    IN IF ~r.ok THEN r
       ELSE IF r.pos + 4 > Len(buff) THEN IoFail
       ELSE IF Slice(buff, r.pos, 4) # AdlerBytes(r.val) THEN IoFail
       ELSE Ok(r.val)

(***************************************************************************)
(* Paths.                                                                  *)
(***************************************************************************)
RECURSIVE JoinPath(_, _)
\* the components joined by the platform separator
JoinPath(plat, comps) ==
    IF comps = <<>> THEN <<>>
    ELSE IF Len(comps) = 1 THEN comps[1]
    ELSE comps[1] \o <<MAIN_SEPARATOR(plat)>> \o JoinPath(plat, Tail(comps))

\* get_rel_path of a file WalkDir found below the input folder at the components comps
get_rel_path(plat, comps) == JoinPath(plat, comps)

IsSep(plat, b) == IF plat = "windows" THEN b = 92 \/ b = 47 ELSE b = 47

RECURSIVE SplitPath(_, _, _, _)
\* the components of the path s as Path sees them: cur is the component being read
SplitPath(plat, s, cur, acc) ==
    IF s = <<>> THEN (IF cur = <<>> THEN acc ELSE Append(acc, cur))
    ELSE IF IsSep(plat, Head(s))
         THEN SplitPath(plat, Tail(s), <<>>, IF cur = <<>> THEN acc ELSE Append(acc, cur))
         ELSE SplitPath(plat, Tail(s), Append(cur, Head(s)), acc)

(***************************************************************************)
(* Files.                                                                  *)
(***************************************************************************)
\* the file f after write_all(bytes) at offset pos; a gap left by a seek reads as zeros
WriteAt(f, pos, bytes) ==
    LET n == IF pos + Len(bytes) > Len(f) THEN pos + Len(bytes) ELSE Len(f)
    IN [k \in 1..n |-> IF k > pos /\ k <= pos + Len(bytes) THEN bytes[k - pos]
                       ELSE IF k <= Len(f) THEN f[k]
                       ELSE 0]

(***************************************************************************)
(* Inputs of the container specification.                                  *)
(***************************************************************************)
\* a file content of n bytes
DataOfLen(n) == [k \in 1..n |-> 103 + k]

Min(a, b) == IF a < b THEN a ELSE b

\* x.txt, yyyyyyyyyyyy.dat, a/b.txt and z.bin, which cannot be opened
FileUniverse ==
    { [comps |-> << <<120, 46, 116, 120, 116>> >>,
       data |-> DataOfLen(MaxDataLen), readable |-> TRUE],
      [comps |-> << Fill(12, 121) \o <<46, 100, 97, 116>> >>,
       data |-> <<>>, readable |-> TRUE],
      [comps |-> << <<97>>, <<98, 46, 116, 120, 116>> >>,
       data |-> DataOfLen(Min(1, MaxDataLen)), readable |-> TRUE],
      [comps |-> << <<122, 46, 98, 105, 110>> >>,
       data |-> DataOfLen(Min(1, MaxDataLen)), readable |-> FALSE] }

Folders ==
    UNION { {f \in [1..n -> FileUniverse] : \A i, j \in 1..n : f[i] = f[j] => i = j}
            : n \in 0..MaxFiles }

\* "0", "7" and "x"
VersionArgs == {<<48>>, <<55>>, <<120>>}

(***************************************************************************)
(* pack.rs                                                                 *)
(***************************************************************************)
RECURSIVE DigitsValue(_, _)
DigitsValue(s, acc) == IF s = <<>> THEN acc ELSE DigitsValue(Tail(s), 10 * acc + (Head(s) - 48))

\* version.parse::<u32>(); arguments of more than nine digits are outside the model
parse_u32(s) ==
    LET d == IF s # <<>> /\ Head(s) = 43 THEN Tail(s) ELSE s
    IN IF d = <<>> \/ Len(d) > 9 \/ \E k \in 1..Len(d) : d[k] < 48 \/ d[k] > 57
       THEN Err("InvalidVersion", <<>>, "")
       ELSE Ok(DigitsValue(d, 0))

\* pack_file on the file at rel_path: the FileInfo and the packed bytes
pack_file(file, rel_path, key) ==
    IF ~file.readable THEN IoFail
    ELSE LET encoded_buff == Obfuscate(zlib_encode(file.data), key)
         IN Ok([fi |-> [name |-> rel_path, version |-> key, off |-> 0,
                        raw_size |-> Len(encoded_buff), uncompr_size |-> Len(file.data)],
                packed |-> encoded_buff])

\* the cfg(windows) variant writes five FILETIMEs, the cfg(unix) variant forty zero bytes
write_file_time(plat, t) == IF plat = "windows" THEN Fill(40, t) ELSE Zeros(40)

write_file_entry_short(plat, t, ent) ==
    LET sb == write_str_block(plat, ent.name)
    IN [bytes |-> sb.bytes \o LE32(ent.version) \o LE32(0) \o LE32(ent.off)
                  \o LE32(ent.raw_size) \o LE32(ent.uncompr_size) \o LE32(1)
                  \o write_file_time(plat, t),
        ret |-> sb.ret + 60]

\* bytes written to the stream by write_file_entry, and the returned size
write_file_entry(plat, t, ent) ==
    LET sb == write_str_block(plat, ent.name)
    IN [bytes |-> sb.bytes \o LE32(ent.version) \o LE32(0) \o LE32(ent.off)
                  \o LE32(ent.raw_size) \o LE32(ent.uncompr_size) \o LE32(1)
                  \o write_file_time(plat, t),
        ret |-> sb.ret + 64]

\* index_size as run_pack computes it from the names
IndexSizeOf(names) ==
    SumTo([k \in 1..Len(names) |-> calc_str_size(Len(names[k]))[1] + 64], Len(names))

next_content_off_uncompr(off, fi) == off + fi.uncompr_size

\* content_off += fi.raw_size
next_content_off(off, fi) == off + fi.raw_size

header_placeholder_magic == LE32(MAGIC) \o LE32(PACK_VER) \o Zeros(HEADER_SIZE - 8)

\* stm.write_all(&[0; HEADER_SIZE as usize])
header_placeholder == Zeros(HEADER_SIZE)

\* run_pack up to the loop: the version is parsed, the folder traversed, the output
\* created and filled with the placeholder header
PackStart ==
    /\ pc = "start"
    /\ LET v == parse_u32(version_arg)
       IN IF ~v.ok
          THEN /\ pack_result' = v
               /\ pc' = "packed"
               /\ UNCHANGED <<out, out_exists, file_names, index_size, content_off, index_off,
                              out_pos>>
          ELSE /\ file_names' = [k \in 1..Len(folder) |-> get_rel_path(platform, folder[k].comps)]
               /\ index_size' = IndexSizeOf(file_names')
               /\ out' = header_placeholder
               /\ out_exists' = TRUE
               /\ out_pos' = HEADER_SIZE
               /\ content_off' = 0
               /\ index_off' = HEADER_SIZE
               /\ pc' = "packing"
               /\ UNCHANGED pack_result
    /\ UNCHANGED <<platform, codec_vars, input_vars, pk_i, fis, head_info, hdr_writes, tampered,
                   extract_vars, list_vars>>

\* one iteration of run_pack's loop whose pack_file succeeds
PackEntry ==
    /\ pc = "packing"
    /\ pk_i < Len(file_names)
    /\ LET name == file_names[pk_i + 1]
           key == parse_u32(version_arg).val
           r == pack_file(folder[pk_i + 1], name, key)
           content_start_off == HEADER_SIZE + index_size
       IN /\ r.ok
          /\ LET fi == [r.val.fi EXCEPT !.off = content_off]
                 rec == write_file_entry(platform, ftime, fi)
                 pay_at == content_start_off + content_off
                 out1 == WriteAt(out, index_off, rec.bytes)
             IN /\ out' = WriteAt(out1, pay_at, r.val.packed)
                /\ out_pos' = pay_at + Len(r.val.packed)
                /\ index_off' = index_off + rec.ret
                /\ content_off' = next_content_off(content_off, fi)
                /\ fis' = Append(fis, [fi |-> fi,
                                       idx_lo |-> index_off,
                                       idx_hi |-> index_off + Len(rec.bytes),
                                       pay_lo |-> pay_at,
                                       pay_hi |-> pay_at + Len(r.val.packed)])
    /\ pk_i' = pk_i + 1
    /\ UNCHANGED <<platform, codec_vars, pc, input_vars, out_exists, file_names, index_size,
                   head_info, hdr_writes, pack_result, tampered, extract_vars, list_vars>>

\* the iteration of run_pack's loop whose pack_file fails: run_pack returns PackingFail
PackEntryFail ==
    /\ pc = "packing"
    /\ pk_i < Len(file_names)
    /\ LET name == file_names[pk_i + 1]
           r == pack_file(folder[pk_i + 1], name, parse_u32(version_arg).val)
       IN /\ ~r.ok
          /\ pack_result' = Err("PackingFail", name, r.kind)
    /\ pc' = "packed"
    /\ UNCHANGED <<platform, codec_vars, input_vars, out, out_exists, file_names, index_size,
                   content_off, index_off, out_pos, pk_i, fis, head_info, hdr_writes, tampered,
                   extract_vars, list_vars>>

\* run_pack after the loop: the header is written at offset 0
PackFinish ==
    /\ pc = "packing"
    /\ pk_i = Len(file_names)
    /\ LET content_start_off == HEADER_SIZE + index_size
           file_size == out_pos
           h == [file_ver |-> parse_u32(version_arg).val,
                 file_cnt |-> Len(file_names),
                 index_size |-> index_size,
                 content_size |-> file_size - content_start_off]
       IN /\ head_info' = h
          /\ out' = WriteAt(out, 0, write_header(platform, ftime, h))
    /\ out_pos' = Len(write_header(platform, ftime, head_info'))
    /\ hdr_writes' = hdr_writes + 1
    /\ pack_result' = Ok(<<>>)
    /\ pc' = "packed"
    /\ UNCHANGED <<platform, codec_vars, input_vars, out_exists, file_names, index_size,
                   content_off, index_off, pk_i, fis, tampered, extract_vars, list_vars>>

(***************************************************************************)
(* main.rs: read_index                                                     *)
(***************************************************************************)
RECURSIVE ReadIndexLoop(_, _, _, _)
\* the loop of read_index: cnt records are still to be read from the cursor index at pos
ReadIndexLoop(index, pos, cnt, files) ==
    IF cnt = 0 THEN Ok(files)
    ELSE LET name == read_str(index, pos)
         IN IF ~name.ok THEN name
            ELSE LET p == name.pos
                 IN IF p + 4 > Len(index) THEN IoFail        \* version
                    ELSE IF p + 12 > Len(index) THEN IoFail  \* off, after the seek over 4
                    ELSE IF p + 16 > Len(index) THEN IoFail  \* raw_size
                    ELSE IF p + 20 > Len(index) THEN IoFail  \* uncompr_size
                    ELSE ReadIndexLoop(index, p + 20 + 44, cnt - 1,
                             Append(files, [name |-> name.val,
                                            version |-> U32Of(Slice(index, p, 4)),
                                            off |-> U32Of(Slice(index, p + 8, 4)),
                                            raw_size |-> U32Of(Slice(index, p + 12, 4)),
                                            uncompr_size |-> U32Of(Slice(index, p + 16, 4))]))

read_index(stm, head) ==
    IF HEADER_SIZE + head.index_size > Len(stm) THEN IoFail
    ELSE ReadIndexLoop(Slice(stm, HEADER_SIZE, head.index_size), 0, head.file_cnt, <<>>)

(***************************************************************************)
(* extract.rs                                                              *)
(***************************************************************************)
\* "\.txt$";  "^x", "\.dat$";  "(";  "^q"
FilterSets ==
    { <<>>,
      << <<92, 46, 116, 120, 116, 36>> >>,
      << <<94, 120>>, <<92, 46, 100, 97, 116, 36>> >>,
      << <<40>> >>,
      << <<94, 113>> >> }

RECURSIVE RegexBad(_)
\* Patterns are literals, escaped bytes and '.', between an optional '^' and an
\* optional '$'.  A pattern is rejected when an unescaped '(' opens a group that is
\* never closed, or when it ends in a lone backslash.
RegexBad(p) ==
    IF p = <<>> THEN FALSE
    ELSE IF Head(p) = 92 THEN (Len(p) < 2 \/ RegexBad(Tail(Tail(p))))
    ELSE IF Head(p) = 40 THEN TRUE
    ELSE RegexBad(Tail(p))

RECURSIVE RegexBody(_)
\* the items of an accepted pattern body: a literal byte, or any byte for '.'
RegexBody(p) ==
    IF p = <<>> THEN <<>>
    ELSE IF Head(p) = 92 THEN <<[any |-> FALSE, lit |-> p[2]]>> \o RegexBody(Tail(Tail(p)))
    ELSE IF Head(p) = 46 THEN <<[any |-> TRUE, lit |-> 0]>> \o RegexBody(Tail(p))
    ELSE <<[any |-> FALSE, lit |-> Head(p)]>> \o RegexBody(Tail(p))

\* Regex::new
regex_new(p) ==
    LET front == p # <<>> /\ Head(p) = 94
        p1 == IF front THEN Tail(p) ELSE p
        back == p1 # <<>> /\ p1[Len(p1)] = 36 /\ (Len(p1) < 2 \/ p1[Len(p1) - 1] # 92)
        p2 == IF back THEN SubSeq(p1, 1, Len(p1) - 1) ELSE p1
    IN IF RegexBad(p2) THEN Err("InvalidRegexp", <<>>, "")
       ELSE Ok([front |-> front, back |-> back, body |-> RegexBody(p2)])

\* re.find(name).is_some()
regex_find(re, name) ==
    \E st \in 0..Len(name) :
        /\ re.front => st = 0
        /\ st + Len(re.body) <= Len(name)
        /\ re.back => st + Len(re.body) = Len(name)
        /\ \A k \in 1..Len(re.body) : re.body[k].any \/ re.body[k].lit = name[st + k]

make_regex(strs) ==
    IF \E k \in 1..Len(strs) : ~regex_new(strs[k]).ok THEN Err("InvalidRegexp", <<>>, "")
    ELSE Ok([k \in 1..Len(strs) |-> regex_new(strs[k]).val])

\* the condition of run_extract's loop body
Selected_all(res, name) == TRUE

Selected(res, name) ==
    Len(res) = 0 \/ \E k \in 1..Len(res) : regex_find(res[k], name)

\* the output folder after write_file(root_dir, rel_path, content): the file at the
\* path is created or replaced; a name without a file component cannot be created
write_file(plat, dir, rel_path, content) ==
    LET path == SplitPath(plat, rel_path, <<>>, <<>>)
    IN IF path = <<>> THEN IoFail
       ELSE Ok({f \in dir : f.path # path} \cup {[path |-> path, data |-> content]})

extract_file_corrupt(stm, head, file_info, plat, dir) ==
    LET start == HEADER_SIZE + head.index_size + file_info.off
    IN IF start + file_info.raw_size > Len(stm) THEN Err("CorruptedFile", <<>>, "")
       ELSE LET buff == Obfuscate(Slice(stm, start, file_info.raw_size), file_info.version)
            IN IF ~ZlibHeaderOk(buff) THEN Err("panic", <<>>, "")
               ELSE LET d == zlib_decode(buff)
                    IN IF ~d.ok THEN d
                       ELSE IF Len(d.val) # file_info.uncompr_size
                            THEN Err("CorruptedFile", <<>>, "")
                       ELSE write_file(plat, dir, file_info.name, d.val)

\* extract_file: a result, or "panic" when Decoder::new(...).unwrap() panics
extract_file(stm, head, file_info, plat, dir) ==
    LET start == HEADER_SIZE + head.index_size + file_info.off
    IN IF start + file_info.raw_size > Len(stm) THEN IoFail
       ELSE LET buff == Obfuscate(Slice(stm, start, file_info.raw_size), file_info.version)
            IN IF ~ZlibHeaderOk(buff) THEN Err("panic", <<>>, "")
               ELSE LET d == zlib_decode(buff)
                    IN IF ~d.ok THEN d
                       ELSE IF Len(d.val) # file_info.uncompr_size
                            THEN Err("CorruptedFile", <<>>, "")
                       ELSE write_file(plat, dir, file_info.name, d.val)

\* run_extract up to the loop
ExtractOpen ==
    /\ pc = "packed"
    /\ \E fs \in FilterSets :
          /\ filters' = fs
          /\ IF ~out_exists
             THEN /\ ext_result' = IoFail
                  /\ pc' = "extracted"
                  /\ UNCHANGED <<ex_head, entries, index_read>>
             ELSE LET h == read_header(out)
                  IN IF ~h.ok
                     THEN /\ ext_result' = Err("ReadHeaderFail", <<>>, h.kind)
                          /\ pc' = "extracted"
                          /\ UNCHANGED <<ex_head, entries, index_read>>
                     ELSE LET idx == read_index(out, h.val)
                              re == make_regex(fs)
                          IN /\ ex_head' = h.val
                             /\ index_read' = TRUE
                             /\ IF ~idx.ok
                                THEN /\ ext_result' = Err("ReadIndexFail", <<>>, idx.kind)
                                     /\ pc' = "extracted"
                                     /\ UNCHANGED entries
                                ELSE /\ entries' = idx.val
                                     /\ IF ~re.ok
                                        THEN /\ ext_result' = re
                                             /\ pc' = "extracted"
                                        ELSE /\ pc' = "extracting"
                                             /\ UNCHANGED ext_result
    /\ UNCHANGED <<platform, codec_vars, input_vars, out, out_exists, pack_vars, tampered,
                   ex_i, ex_done, outdir, list_vars>>

\* an iteration of run_extract's loop on an entry the filters select, extract_file Ok
ExtractEntry ==
    /\ pc = "extracting"
    /\ ex_i < Len(entries)
    /\ LET fi == entries[ex_i + 1]
           r == extract_file(out, ex_head, fi, platform, outdir)
       IN /\ Selected(make_regex(filters).val, fi.name)
          /\ r.ok
          /\ outdir' = r.val
    /\ ex_done' = ex_done \cup {ex_i + 1}
    /\ ex_i' = ex_i + 1
    /\ UNCHANGED <<platform, codec_vars, pc, input_vars, out, out_exists, pack_vars, tampered,
                   filters, ex_head, entries, index_read, ext_result, list_vars>>

\* an iteration of run_extract's loop on an entry the filters do not select
ExtractSkip ==
    /\ pc = "extracting"
    /\ ex_i < Len(entries)
    /\ ~Selected(make_regex(filters).val, entries[ex_i + 1].name)
    /\ ex_i' = ex_i + 1
    /\ UNCHANGED <<platform, codec_vars, pc, input_vars, out, out_exists, pack_vars, tampered,
                   filters, ex_head, entries, index_read, ex_done, outdir, ext_result,
                   list_vars>>

\* an iteration of run_extract's loop whose extract_file returns Err: run_extract
\* returns ExtractFail(fi.name, e.to_string())
ExtractEntryFail ==
    /\ pc = "extracting"
    /\ ex_i < Len(entries)
    /\ LET fi == entries[ex_i + 1]
           r == extract_file(out, ex_head, fi, platform, outdir)
       IN /\ Selected(make_regex(filters).val, fi.name)
          /\ ~r.ok
          /\ r.kind # "panic"
          /\ ext_result' = Err("ExtractFail", fi.name, r.kind)
    /\ pc' = "extracted"
    /\ UNCHANGED <<platform, codec_vars, input_vars, out, out_exists, pack_vars, tampered,
                   filters, ex_head, entries, index_read, ex_i, ex_done, outdir, list_vars>>

\* an iteration of run_extract's loop in which extract_file panics: the process ends
\* and run_extract returns nothing
ExtractEntryPanic ==
    /\ pc = "extracting"
    /\ ex_i < Len(entries)
    /\ LET fi == entries[ex_i + 1]
           r == extract_file(out, ex_head, fi, platform, outdir)
       IN /\ Selected(make_regex(filters).val, fi.name)
          /\ ~r.ok
          /\ r.kind = "panic"
          /\ ext_result' = r
    /\ pc' = "extracted"
    /\ UNCHANGED <<platform, codec_vars, input_vars, out, out_exists, pack_vars, tampered,
                   filters, ex_head, entries, index_read, ex_i, ex_done, outdir, list_vars>>

\* run_extract after the loop
ExtractFinish ==
    /\ pc = "extracting"
    /\ ex_i = Len(entries)
    /\ ext_result' = Ok(<<>>)
    /\ pc' = "extracted"
    /\ UNCHANGED <<platform, codec_vars, input_vars, out, out_exists, pack_vars, tampered,
                   filters, ex_head, entries, index_read, ex_i, ex_done, outdir, list_vars>>

(***************************************************************************)
(* list.rs                                                                 *)
(***************************************************************************)
RECURSIVE Decimal(_)
\* the decimal digits of n, as "{}" formats a u32
Decimal(n) == IF n < 10 THEN <<48 + n>> ELSE Decimal(n \div 10) \o <<48 + (n % 10)>>

\* the line writeln! writes for the entry e
ListLine(e, with_version) ==
    IF with_version THEN Decimal(e.version) \o <<32>> \o e.name \o <<10>>
    ELSE e.name \o <<10>>

\* run_list
RunList ==
    /\ pc = "packed"
    /\ \E hv \in BOOLEAN :
          /\ has_version' = hv
          /\ IF ~out_exists
             THEN /\ list_result' = IoFail
                  /\ UNCHANGED <<list_out, index_read>>
             ELSE LET h == read_header(out)
                  IN IF ~h.ok
                     THEN /\ list_result' = h
                          /\ UNCHANGED <<list_out, index_read>>
                     ELSE LET idx == read_index(out, h.val)
                          IN /\ index_read' = TRUE
                             /\ IF ~idx.ok
                                THEN /\ list_result' = idx
                                     /\ UNCHANGED list_out
                                ELSE /\ list_result' = Ok(<<>>)
                                     /\ list_out' = [k \in 1..Len(idx.val) |->
                                                        ListLine(idx.val[k], hv)]
    /\ pc' = "listed"
    /\ UNCHANGED <<platform, codec_vars, input_vars, out, out_exists, pack_vars, tampered,
                   filters, ex_head, entries, ex_i, ex_done, outdir, ext_result>>

(***************************************************************************)
(* The environment: a completed container is damaged before it is read.    *)
(***************************************************************************)
\* offsets of the bytes that may be changed: the low byte of magic, of the format
\* version and of each file count; per entry the low byte of uncompr_size, the zlib
\* header, the deflate block header and the last checksum byte
TamperOffsets ==
    {0, 4, 12, 512}
    \cup UNION { {fis[k].idx_hi - 48, fis[k].pay_lo, fis[k].pay_lo + 2, fis[k].pay_hi - 1}
                 : k \in 1..Len(fis) }

\* one bit of one byte of the container is flipped
TamperByte ==
    /\ pc = "packed"
    /\ pack_result.ok
    /\ tampered = "none"
    /\ \E off \in TamperOffsets :
          out' = [out EXCEPT ![off + 1] = Xor8(out[off + 1], 1, 8)]
    /\ tampered' = "byte"
    /\ UNCHANGED <<platform, codec_vars, pc, input_vars, out_exists, pack_vars, extract_vars,
                   list_vars>>

\* the container loses its last byte
Truncate ==
    /\ pc = "packed"
    /\ pack_result.ok
    /\ tampered = "none"
    /\ out' = SubSeq(out, 1, Len(out) - 1)
    /\ tampered' = "truncated"
    /\ UNCHANGED <<platform, codec_vars, pc, input_vars, out_exists, pack_vars, extract_vars,
                   list_vars>>

(***************************************************************************)
(* Codec specification: the string block codec and the header codec are    *)
(* applied to inputs drawn from CodecNames and CodecHeads.                 *)
(***************************************************************************)
EncodeStr ==
    /\ c_pc = "name"
    /\ c_block' = write_str_block(platform, c_name)
    /\ c_pc' = "block"
    /\ UNCHANGED <<platform, c_name, c_dec, c_head, c_time, c_hbytes, c_hread, pc, input_vars,
                   out, out_exists, pack_vars, tampered, extract_vars, list_vars>>

DecodeStr ==
    /\ c_pc = "block"
    /\ c_dec' = read_str(c_block.bytes, 0)
    /\ c_pc' = "decoded"
    /\ UNCHANGED <<platform, c_name, c_block, c_head, c_time, c_hbytes, c_hread, pc,
                   input_vars, out, out_exists, pack_vars, tampered, extract_vars, list_vars>>

WriteHeader ==
    /\ c_pc = "head"
    /\ c_hbytes' = write_header(platform, c_time, c_head)
    /\ c_pc' = "written"
    /\ UNCHANGED <<platform, c_name, c_block, c_dec, c_head, c_time, c_hread, pc, input_vars,
                   out, out_exists, pack_vars, tampered, extract_vars, list_vars>>

ReadHeader ==
    /\ c_pc = "written"
    /\ c_hread' = read_header(c_hbytes)
    /\ c_pc' = "read"
    /\ UNCHANGED <<platform, c_name, c_block, c_dec, c_head, c_time, c_hbytes, pc, input_vars,
                   out, out_exists, pack_vars, tampered, extract_vars, list_vars>>

(***************************************************************************)
(* Specifications.                                                         *)
(***************************************************************************)
CodecIdle ==
    /\ c_name = <<>>
    /\ c_block = [bytes |-> <<>>, ret |-> 0]
    /\ c_dec = NoResult
    /\ c_head = NoHead
    /\ c_time = 0
    /\ c_hbytes = <<>>
    /\ c_hread = NoResult

ContainerIdle ==
    /\ out = <<>>
    /\ out_exists = FALSE
    /\ file_names = <<>>
    /\ index_size = 0
    /\ content_off = 0
    /\ index_off = 0
    /\ out_pos = 0
    /\ pk_i = 0
    /\ fis = <<>>
    /\ head_info = NoHead
    /\ hdr_writes = 0
    /\ pack_result = NoResult
    /\ tampered = "none"
    /\ filters = <<>>
    /\ ex_head = NoHead
    /\ entries = <<>>
    /\ index_read = FALSE
    /\ ex_i = 0
    /\ ex_done = {}
    /\ outdir = {}
    /\ ext_result = NoResult
    /\ has_version = FALSE
    /\ list_out = <<>>
    /\ list_result = NoResult

Init ==
    /\ platform \in Platforms
    /\ c_pc = "idle"
    /\ CodecIdle
    /\ pc = "start"
    /\ folder \in Folders
    /\ version_arg \in VersionArgs
    /\ ftime \in (IF platform = "windows" THEN TimeBytes ELSE {0})
    /\ ContainerIdle

Next ==
    \/ PackStart
    \/ PackEntry
    \/ PackEntryFail
    \/ PackFinish
    \/ TamperByte
    \/ Truncate
    \/ ExtractOpen
    \/ ExtractEntry
    \/ ExtractSkip
    \/ ExtractEntryFail
    \/ ExtractEntryPanic
    \/ ExtractFinish
    \/ RunList

Spec == Init /\ [][Next]_vars

CodecInit ==
    /\ platform \in Platforms
    /\ pc = "idle"
    /\ folder = <<>>
    /\ version_arg = <<48>>
    /\ ftime = 0
    /\ ContainerIdle
    /\ c_block = [bytes |-> <<>>, ret |-> 0]
    /\ c_dec = NoResult
    /\ c_hbytes = <<>>
    /\ c_hread = NoResult
    /\ \/ /\ c_pc = "name"
          /\ c_name \in CodecNames(platform)
          /\ c_head = NoHead
          /\ c_time = 0
       \/ /\ c_pc = "head"
          /\ c_name = <<>>
          /\ c_head \in CodecHeads
          /\ c_time \in (IF platform = "windows" THEN TimeBytes ELSE {0})

CodecNext ==
    \/ EncodeStr
    \/ DecodeStr
    \/ WriteHeader
    \/ ReadHeader

CodecSpec == CodecInit /\ [][CodecNext]_vars

(***************************************************************************)
(* Properties.                                                             *)
(***************************************************************************)
\* the smallest multiple of 16 that is >= x
IsNextMultiple(m, x) == m % 16 = 0 /\ m >= x /\ m - 16 < x

\* C1: round-trip.  A folder holding one readable file, packed with a numeric version
\* key and extracted without filters from the untouched container: run_extract
\* succeeds and the output holds the file's bytes at the file's relative path.
C1_RoundTrip ==
    (/\ pc = "extracted"
     /\ Len(folder) = 1
     /\ folder[1].readable
     /\ parse_u32(version_arg).ok
     /\ tampered = "none"
     /\ filters = <<>>)
    => /\ ext_result.ok
       /\ [path |-> folder[1].comps, data |-> folder[1].data] \in outdir

\* C2: in run_pack, after any number of entries, the offset of entry k (as kept in its
\* FileInfo and as stored in its index record in the file) is the sum of raw_size of
\* the entries before it, and the payloads occupy adjacent byte ranges of the content
\* region in traversal order, each of raw_size bytes.
C2_Offsets ==
    \A k \in 1..Len(fis) :
        LET before == SumTo([j \in 1..(k - 1) |-> fis[j].fi.raw_size], k - 1)
            stored == Slice(out, fis[k].idx_hi - 64 + 8, 4)
        IN /\ fis[k].fi.off = before
           /\ tampered = "none" => U32Of(stored) = before
           /\ fis[k].pay_lo = HEADER_SIZE + index_size + before
           /\ fis[k].pay_hi - fis[k].pay_lo = fis[k].fi.raw_size
           /\ k > 1 => fis[k].pay_lo = fis[k - 1].pay_hi

C2_Witness ==
    /\ pc = "packing"
    /\ Len(fis) = 2
    /\ fis[2].fi.off > 0

\* C3: in a container completed by run_pack, the header's index_size is the sum over
\* the entries of (bytes of the name's string block + 0x40), its content_size the sum
\* of raw_size; every index record lies in [0x220, 0x220+index_size), every payload in
\* [0x220+index_size, 0x220+index_size+content_size); the index write cursor after
\* the last entry is 0x220+index_size.
C3_Regions ==
    pack_result.ok =>
        LET n == Len(fis)
            blocks == [k \in 1..n |-> Len(write_str_block(platform, fis[k].fi.name).bytes) + 64]
            raws == [k \in 1..n |-> fis[k].fi.raw_size]
            index_end == HEADER_SIZE + head_info.index_size
        IN /\ n = Len(folder)
           /\ head_info.index_size = SumTo(blocks, n)
           /\ head_info.content_size = SumTo(raws, n)
           /\ index_off = index_end
           /\ \A k \in 1..n :
                 /\ HEADER_SIZE <= fis[k].idx_lo
                 /\ fis[k].idx_lo < fis[k].idx_hi
                 /\ fis[k].idx_hi <= index_end
                 /\ index_end <= fis[k].pay_lo
                 /\ fis[k].pay_lo < fis[k].pay_hi
                 /\ fis[k].pay_hi <= index_end + head_info.content_size
                 /\ \A j \in 1..n : j < k => fis[j].idx_hi <= fis[k].idx_lo
           /\ tampered = "none" => Len(out) = index_end + head_info.content_size

C3_Witness ==
    /\ pc = "packed"
    /\ pack_result.ok
    /\ Len(fis) = 2
    /\ head_info.index_size = 80 + 96

\* the block of a name of len bytes has the size and class byte of the table, the
\* class 5 size being the smallest multiple of 16 that is >= len + slack
StrBlockTable(slack) ==
    c_pc \in {"block", "decoded"} =>
        LET len == Len(c_name)
            size == Len(c_block.bytes)
            class == c_block.bytes[1]
        IN /\ len <= 14 => size = 16 /\ class = 0
           /\ len >= 15 /\ len <= 30 => size = 32 /\ class = 1
           /\ len >= 31 /\ len <= 46 => size = 48 /\ class = 2
           /\ len >= 47 /\ len <= 62 => size = 64 /\ class = 3
           /\ len >= 63 /\ len <= 94 => size = 96 /\ class = 4
           /\ len >= 95 => /\ class = 5
                           /\ IsNextMultiple(size, len + slack)
                           /\ U32Of(Slice(c_block.bytes, 1, 4)) = size - 5

\* C4 as stated: for a name of 95 bytes or more the block size is the smallest multiple
\* of 16 that is >= L+5.
C4_Original == StrBlockTable(5)

\* C4 amended: the block written by write_str_block follows the length-class table,
\* and for a name of 95 bytes or more the block has class 5, a size equal to the
\* smallest multiple of 16 that is >= L+6 (the five leading bytes, the name and at
\* least one zero byte) and a length field equal to the size - 5.
C4_StrBlockTable == StrBlockTable(6)

C4_Witness ==
    /\ c_pc = "block"
    /\ Len(c_name) = 107
    /\ Len(c_block.bytes) = 128

\* C5: string block round-trip.  read_str on the bytes of write_str_block succeeds,
\* returns the name and consumes exactly the bytes written.
C5_StrRoundTrip ==
    c_pc = "decoded" =>
        /\ c_dec.ok
        /\ c_dec.val = c_name
        /\ c_dec.pos = Len(c_block.bytes)

\* C6: on every target write_header emits 0x220 bytes, and read_header on them
\* succeeds and returns the HeadInfo written.
C6_HeaderRoundTrip ==
    /\ c_pc \in {"written", "read"} => Len(c_hbytes) = HEADER_SIZE
    /\ c_pc = "read" => c_hread.ok /\ c_hread.val = c_head

\* the magic, the format version or the repeated file count of the file does not match
HeaderMismatch(f) ==
    /\ Len(f) >= 516
    /\ \/ Slice(f, 0, 4) # <<80, 65, 67, 75>>
       \/ Slice(f, 4, 4) # <<2, 1, 0, 0>>
       \/ Slice(f, 12, 4) # Slice(f, 512, 4)

\* C7: header validation precedes index parsing.  On a container whose magic, format
\* version or repeated file count does not match, read_header fails with the format
\* error; run_extract returns it (as the message of ReadHeaderFail) and run_list
\* returns it, read_index is never entered and nothing is written or listed.
C7_HeaderFirst ==
    (out_exists /\ HeaderMismatch(out)) =>
        /\ read_header(out) = WrongFormat
        /\ pc = "extracted" =>
              /\ ext_result = Err("ReadHeaderFail", <<>>, "WrongFormat")
              /\ ~index_read
              /\ entries = <<>>
              /\ outdir = {}
        /\ pc = "listed" =>
              /\ list_result = WrongFormat
              /\ ~index_read
              /\ list_out = <<>>

C7_Witness ==
    /\ pc = "extracted"
    /\ tampered = "byte"
    /\ Slice(out, 0, 8) = <<80, 65, 67, 75, 2, 1, 0, 0>>
    /\ Slice(out, 12, 4) # Slice(out, 512, 4)
    /\ Slice(out, 12, 4) = <<2, 0, 0, 0>>

\* run_extract has ended on the last entry of a container that lost its last byte
TruncatedLast ==
    /\ pc = "extracted"
    /\ tampered = "truncated"
    /\ Len(entries) >= 1
    /\ make_regex(filters).ok
    /\ Selected(make_regex(filters).val, entries[Len(entries)].name)

\* run_extract failed on the last entry with the error kind, and wrote nothing for it
LastEntryFailedWith(kind) ==
    LET last == entries[Len(entries)]
    IN /\ ext_result = Err("ExtractFail", last.name, kind)
       /\ ex_i = Len(entries) - 1
       /\ \A f \in outdir : f.path # SplitPath(platform, last.name, <<>>, <<>>)

\* C8 as stated: extraction of the entry that reaches the end of a content region
\* shortened by one byte fails with CorruptedFile.
C8_Original == TruncatedLast => LastEntryFailedWith("CorruptedFile")

\* C8 amended: when the content region of a valid container is shortened by one byte,
\* extraction of the entry whose payload reaches the end of the region fails with the
\* I/O error of read_exact (MabiError::IoFail, which run_extract returns as the message
\* of ExtractFail with the entry's name), not with CorruptedFile and not with a silent
\* short read, and no output file is written for that entry.
C8_TruncatedIsIoFail == TruncatedLast => LastEntryFailedWith("IoFail")

C8_Witness ==
    /\ TruncatedLast
    /\ Len(entries) = 2
    /\ Cardinality(outdir) = 1

\* C9: when a selected entry fails, run_extract returns an error value carrying the
\* entry's name, no file is written for the entry, no later entry is processed and
\* the entries extracted before remain written.
C9_FailureSemantics ==
    (/\ pc = "extracted"
     /\ make_regex(filters).ok
     /\ ex_i < Len(entries))
    => LET fi == entries[ex_i + 1]
       IN /\ ext_result.kind = "ExtractFail"
          /\ ext_result.name = fi.name
          /\ ex_done \subseteq 1..ex_i
          /\ {f.path : f \in outdir} = {SplitPath(platform, entries[k].name, <<>>, <<>>) : k \in ex_done}

\* the filters select entry k: there is no pattern, or one of them is found in its name
Matches(k) ==
    \/ filters = <<>>
    \/ \E p \in 1..Len(filters) : regex_find(regex_new(filters[p]).val, entries[k].name)

\* C10, in every state of the loop: of the entries processed so far exactly those the
\* filters select have been extracted, and files exist for exactly those.
FilterState ==
    pc \in {"extracting", "extracted"} =>
        /\ ex_done = {k \in 1..ex_i : Matches(k)}
        /\ {f.path : f \in outdir} = {SplitPath(platform, entries[k].name, <<>>, <<>>) : k \in ex_done}
        /\ ext_result.ok => ex_i = Len(entries)

\* C10, in every step: an entry is extracted after every entry extracted before it
FilterOrder ==
    ex_done' # ex_done =>
        /\ ex_done' = ex_done \cup {ex_i + 1}
        /\ \A j \in ex_done : j < ex_i + 1

\* C10: filter semantics of run_extract.  With no pattern every entry is extracted;
\* with patterns an entry is extracted iff at least one pattern is found in its name,
\* the others are skipped without a file being written, and the extracted entries
\* are processed in index order.
C10_Filter == []FilterState /\ [][FilterOrder]_vars

C10_Witness ==
    /\ pc = "extracted"
    /\ ext_result.ok
    /\ Len(filters) = 1
    /\ Len(entries) = 2
    /\ ex_done = {1}
    /\ Cardinality(outdir) = 1

RECURSIVE SlashName(_)
\* the components joined by '/': the forward-slash form of a relative path
SlashName(comps) ==
    IF comps = <<>> THEN <<>>
    ELSE IF Len(comps) = 1 THEN comps[1]
    ELSE comps[1] \o <<47>> \o SlashName(Tail(comps))

\* the line the claim expects for the file at comps: the forward-slash name, after
\* the version and a space when versions are listed
ExpectedLine(comps, key, with_version) ==
    IF with_version THEN Decimal(key) \o <<32>> \o SlashName(comps) \o <<10>>
    ELSE SlashName(comps) \o <<10>>

\* C11: listing.  run_list on the untouched container of a completed run_pack
\* succeeds and emits one line per entry, in index order, each holding the entry's
\* name in forward-slash form, after the version and a space with --with-version
\* (a/b.txt packed with key 7 is listed as "a/b.txt" or "7 a/b.txt").
C11_Listing ==
    (/\ pc = "listed"
     /\ pack_result.ok
     /\ tampered = "none")
    => /\ list_result.ok
       /\ Len(list_out) = Len(folder)
       /\ \A k \in 1..Len(folder) :
             list_out[k] = ExpectedLine(folder[k].comps, parse_u32(version_arg).val,
                                        has_version)

\* C12, in every state: while run_pack processes entries, and after it aborted on
\* one, the header region holds only the placeholder zeros and no header has been
\* written; read_header rejects the aborted container with the format error.  The
\* header is written at most once, after every record and payload.
HeaderLastState ==
    /\ hdr_writes <= 1
    /\ pc = "packing" => hdr_writes = 0 /\ Slice(out, 0, HEADER_SIZE) = Zeros(HEADER_SIZE)
    /\ (~pack_result.ok /\ pack_result.kind = "PackingFail") =>
          /\ hdr_writes = 0
          /\ Slice(out, 0, HEADER_SIZE) = Zeros(HEADER_SIZE)
          /\ read_header(out) = WrongFormat
    /\ pack_result.ok <=> hdr_writes = 1
    /\ hdr_writes = 1 => Len(fis) = Len(folder)
    /\ (hdr_writes = 1 /\ tampered = "none") =>
          /\ Slice(out, 0, 4) = LE32(MAGIC)
          /\ \A k \in 1..Len(fis) : fis[k].idx_hi <= Len(out) /\ fis[k].pay_hi <= Len(out)

\* C12, in every step: the step that writes the header ends run_pack, and run_pack
\* writes nothing after it
HeaderLastStep ==
    /\ hdr_writes' # hdr_writes => pk_i = Len(file_names) /\ pc' = "packed"
    /\ (hdr_writes = 1 /\ tampered' = tampered) => out' = out

\* C12: header finalisation ordering in run_pack.  The header region [0, 0x220)
\* holds the zero placeholder until every entry's index record and payload have been
\* written; the real header is written once, as the last write; a run_pack that
\* aborts on an entry leaves the magic zero, and read_header rejects that container
\* with the format error.
C12_HeaderLast == []HeaderLastState /\ [][HeaderLastStep]_vars

C12_Witness ==
    /\ pc = "packed"
    /\ ~pack_result.ok
    /\ pack_result.kind = "PackingFail"
    /\ Len(fis) = 1
    /\ Len(out) > HEADER_SIZE
    /\ read_header(out) = WrongFormat

====
